---------------------------- MODULE Spec2Model ----------------------------
(***************************************************************************)
(* Model of src/summary.rs of strace-analyzer: the per-descriptor Summary  *)
(* (two operation-size histograms, two byte totals), its update / reset    *)
(* operations and the report written by show.                              *)
(*                                                                         *)
(* u64 values are modelled as integers of Width bits: + on u64 is the      *)
(* plain Rust operator, which panics when the build has overflow checks    *)
(* (cargo's dev profile) and wraps modulo 2^w when it has none (release).  *)
(* The build is fixed at construction and both outcomes are explored.      *)
(***************************************************************************)
EXTENDS Integers, Sequences, FiniteSets, TLC

VARIABLES descriptor,       \* Summary.descriptor
          read_freq,        \* Summary.read_freq  : HashMap<u64, u64>
          write_freq,       \* Summary.write_freq : HashMap<u64, u64>
          read_bytes,       \* Summary.read_bytes  : u64
          write_bytes,      \* Summary.write_bytes : u64
          overflow_checks,  \* build profile: are arithmetic overflow checks on
          panicked,         \* the thread has panicked (arithmetic overflow)
          out,              \* lines the last operation printed to stdout
          diag,             \* messages the last operation handed to debug()
          last,             \* the last operation and its arguments
          rd_calls,         \* history: update_read calls per op_size since reset
          wr_calls,         \* history: update_write calls per op_size since reset
          rd_sum,           \* history: sum of bytes passed to update_read since reset
          wr_sum            \* history: sum of bytes passed to update_write since reset

vars == <<descriptor, read_freq, write_freq, read_bytes, write_bytes,
          overflow_checks, panicked, out, diag, last,
          rd_calls, wr_calls, rd_sum, wr_sum>>

summary == <<descriptor, read_freq, write_freq, read_bytes, write_bytes>>

---------------------------------------------------------------------------
(* Bounds *)

\* number of bits of the modelled u64
Width == 14
\* update_read plus update_write calls between two resets
MaxCalls == 4

Modulus == 2 ^ Width
U64Max == Modulus - 1

\* (op_size, bytes) arguments the driver passes to update_read / update_write:
\* a full transfer, a partial one, and one whose byte count is the largest u64
Args == { <<4096, 4096>>, <<1024, 500>>, <<64, U64Max>> }
OpSizes == { a[1] : a \in Args }

---------------------------------------------------------------------------
(* Paths are strings, modelled as sequences of characters *)

HomeUserDataBin ==
    <<"/","h","o","m","e","/","u","s","e","r","/","d","a","t","a",".","b","i","n">>
EtcPasswd == <<"/","e","t","c","/","p","a","s","s","w","d">>
DevNull == <<"/","d","e","v","/","n","u","l","l">>

Paths ==
    { HomeUserDataBin, EtcPasswd, DevNull,
      <<>>,
      <<"/","e","t","c">>,
      <<"/","d","e","v","/","n","u","l","l","/","x">>,
      <<"x","/","u","s","r","/","a">>,
      <<"S","T","D","O","U","T">>, <<"S","T","D","E","R","R">>,
      <<"S","T","D","I","N">>, <<"D","U","P">>,
      <<"S","T","D","I","N","2">>,
      <<"/","b","i","n","/","s","h">>,
      <<"/","l","i","b","/","a">>,
      <<"/","l","i","b","6","4","/","a">>,
      <<"/","l","i","b","3","2","/","a">>,
      <<"/","o","p","t","/","a">>,
      <<"/","p","r","o","c","/","1">>,
      <<"/","r","u","n","/","a">>,
      <<"/","s","b","i","n","/","a">>,
      <<"/","s","y","s","/","a">>,
      <<"/","t","m","p","/">>,
      <<"/","u","s","r","/","a">> }

\* str::starts_with
starts_with(s, p) == Len(s) >= Len(p) /\ SubSeq(s, 1, Len(p)) = p

---------------------------------------------------------------------------
(* Descriptors *)

FileDescription(path) == [kind |-> "File", path |-> path]
SocketDescription == [kind |-> "Socket", bind |-> <<>>, connect |-> <<>>]
PipeDescriptor == [kind |-> "Pipe"]

Descriptors == { FileDescription(p) : p \in Paths } \cup {SocketDescription, PipeDescriptor}

\* impl fmt::Display for GenericFileDescriptor
Display(d) ==
    CASE d.kind = "File"   -> <<"FILE Path:", d.path>>
      [] d.kind = "Socket" -> <<"SOCKET Bind:", d.bind, " Connect:", d.connect>>
      [] d.kind = "Pipe"   -> <<"PIPE">>

---------------------------------------------------------------------------
(* u64 arithmetic *)

\* a + b does not fit a u64
overflows(a, b) == a + b > U64Max
\* the value a + b leaves in a build without overflow checks
wrapping_add(a, b) == (a + b) % Modulus

---------------------------------------------------------------------------
(* Histograms: HashMap<u64, u64>, a function from its keys to their counts *)

HashMap_new == << >>

is_empty(freq) == DOMAIN freq = {}

\* HashMap::entry(k).or_insert(v)
or_insert(freq, k, v) ==
    IF k \in DOMAIN freq THEN freq
    ELSE [x \in DOMAIN freq \cup {k} |-> IF x = k THEN v ELSE freq[x]]

\* the (key, value) pairs HashMap::iter yields
iter(freq) == { <<k, freq[k]>> : k \in DOMAIN freq }

\* Ord for (&u64, &u64): lexicographic
tuple_le(e, f) == e[1] < f[1] \/ (e[1] = f[1] /\ e[2] <= f[2])

\* the most frequent entry: the pairs compared by count first
max_by_count(freq) ==
    CHOOSE e \in iter(freq) : \A f \in iter(freq) : tuple_le(<<f[2], f[1]>>, <<e[2], e[1]>>)

\* Iterator::max over the pairs of a non-empty map
max(freq) == CHOOSE e \in iter(freq) : \A f \in iter(freq) : tuple_le(f, e)

RECURSIVE values_total(_)
\* the mathematical sum of HashMap::values
values_total(freq) ==
    IF DOMAIN freq = {} THEN 0
    ELSE LET k == CHOOSE x \in DOMAIN freq : TRUE
         IN freq[k] + values_total([x \in DOMAIN freq \ {k} |-> freq[x]])

\* values().sum::<u64>() in a build without overflow checks
values_sum(freq) == values_total(freq) % Modulus
\* values().sum::<u64>() panics in a build with overflow checks
values_sum_overflows(freq) == values_total(freq) > U64Max

---------------------------------------------------------------------------
(* humanize: ByteSize(bytes).to_string_as(true) with "iB" and " " removed, *)
(* upper-cased.  A rendering is its digits and its unit letter: 500 is     *)
(* <<500>> "B", 12788 is <<12, 5>> "K" (12.5K).                            *)

UnitLetters == <<"K", "M", "G", "T", "P", "E">>

RECURSIVE pow1024(_)
pow1024(e) == IF e = 0 THEN 1 ELSE 1024 * pow1024(e - 1)

RECURSIVE exponent(_, _)
\* the largest e >= from with 1024^e <= bytes
exponent(bytes, from) ==
    IF bytes >= pow1024(from + 1) THEN exponent(bytes, from + 1) ELSE from

\* n / d to the nearest integer, ties to even: what {:.1} prints of an exact f64
round_half_even(n, d) ==
    LET q == n \div d
        r == n % d
    IN IF 2 * r > d \/ (2 * r = d /\ q % 2 = 1) THEN q + 1 ELSE q

humanize(bytes) ==
    IF bytes < 1024
    THEN [digits |-> <<bytes>>, unit |-> "B"]
    ELSE LET e == exponent(bytes, 1)
             tenths == round_half_even(bytes * 10, pow1024(e))
         IN [digits |-> <<tenths \div 10, tenths % 10>>, unit |-> UnitLetters[e]]

---------------------------------------------------------------------------
(* Summary::show *)

\* the path tests without the one for /lib64/
denylisted_without_lib64(path) ==
    \/ starts_with(path, <<"/","b","i","n","/">>)
    \/ path = <<"/","d","e","v","/","n","u","l","l">>
    \/ starts_with(path, <<"/","e","t","c","/">>)
    \/ starts_with(path, <<"/","l","i","b","/">>)
    \/ starts_with(path, <<"/","o","p","t","/">>)
    \/ starts_with(path, <<"/","p","r","o","c","/">>)
    \/ starts_with(path, <<"/","r","u","n","/">>)
    \/ starts_with(path, <<"/","s","b","i","n","/">>)
    \/ starts_with(path, <<"/","s","y","s","/">>)
    \/ starts_with(path, <<"/","t","m","p","/">>)
    \/ starts_with(path, <<"/","u","s","r","/">>)
    \/ path = <<"S","T","D","O","U","T">>
    \/ path = <<"S","T","D","E","R","R">>
    \/ path = <<"S","T","D","I","N">>
    \/ path = <<"D","U","P">>

\* the path tests of show, in the order of the source
denylisted(path) ==
    \/ starts_with(path, <<"/","b","i","n","/">>)
    \/ path = <<"/","d","e","v","/","n","u","l","l">>
    \/ starts_with(path, <<"/","e","t","c","/">>)
    \/ starts_with(path, <<"/","l","i","b","/">>)
    \/ starts_with(path, <<"/","l","i","b","6","4","/">>)
    \/ starts_with(path, <<"/","o","p","t","/">>)
    \/ starts_with(path, <<"/","p","r","o","c","/">>)
    \/ starts_with(path, <<"/","r","u","n","/">>)
    \/ starts_with(path, <<"/","s","b","i","n","/">>)
    \/ starts_with(path, <<"/","s","y","s","/">>)
    \/ starts_with(path, <<"/","t","m","p","/">>)
    \/ starts_with(path, <<"/","u","s","r","/">>)
    \/ path = <<"S","T","D","O","U","T">>
    \/ path = <<"S","T","D","E","R","R">>
    \/ path = <<"S","T","D","I","N">>
    \/ path = <<"D","U","P">>

\* the early returns of show when config.verbose is false
filtered(d, verbose) ==
    /\ ~verbose
    /\ \/ (d.kind = "File" /\ denylisted(d.path))
       \/ d.kind = "Pipe"

\* the line with the number of distinct sizes as n_ops
report_line_counting_keys(dir, bytes, freq, d) ==
    [ dir        |-> dir,
      total      |-> humanize(bytes),
      n_ops      |-> Cardinality(DOMAIN freq),
      op_size    |-> humanize(max(freq)[1]),
      descriptor |-> Display(d) ]

\* the line println! writes for one direction
report_line(dir, bytes, freq, d) ==
    [ dir        |-> dir,
      total      |-> humanize(bytes),
      n_ops      |-> values_sum(freq),
      op_size    |-> humanize(max(freq)[1]),
      descriptor |-> Display(d) ]

\* the message show hands to debug()
no_io_message(d) == <<"no I/O with ", Display(d)>>

\* show with the test for empty histograms ahead of the filter
show_result_empty_first(d, rf, wf, rb, wb, checks, verbose) ==
    IF is_empty(rf) /\ is_empty(wf)
    THEN [out |-> <<>>, diag |-> <<no_io_message(d)>>, panicked |-> FALSE]
    ELSE IF filtered(d, verbose)
    THEN [out |-> <<>>, diag |-> <<>>, panicked |-> FALSE]
    ELSE [out |-> (IF is_empty(rf) THEN <<>> ELSE <<report_line("read", rb, rf, d)>>)
                  \o (IF is_empty(wf) THEN <<>> ELSE <<report_line("write", wb, wf, d)>>),
          diag |-> <<>>, panicked |-> FALSE]

\* What one call of show prints, logs, and whether it panics.  A sum that
\* overflows under overflow checks panics before the line of its direction.
show_result(d, rf, wf, rb, wb, checks, verbose) ==
    IF filtered(d, verbose)
    THEN [out |-> <<>>, diag |-> <<>>, panicked |-> FALSE]
    ELSE IF is_empty(rf) /\ is_empty(wf)
    THEN [out |-> <<>>, diag |-> <<no_io_message(d)>>, panicked |-> FALSE]
    ELSE LET rpanic == ~is_empty(rf) /\ checks /\ values_sum_overflows(rf)
             wpanic == ~is_empty(wf) /\ checks /\ values_sum_overflows(wf)
             rline  == IF is_empty(rf) \/ rpanic
                       THEN <<>> ELSE <<report_line("read", rb, rf, d)>>
             wline  == IF is_empty(wf) \/ rpanic \/ wpanic
                       THEN <<>> ELSE <<report_line("write", wb, wf, d)>>
         IN [out |-> rline \o wline, diag |-> <<>>, panicked |-> rpanic \/ wpanic]

---------------------------------------------------------------------------
(* The state machine *)

zero_calls == [s \in OpSizes |-> 0]

RECURSIVE calls_total(_, _)
calls_total(calls, sizes) ==
    IF sizes = {} THEN 0
    ELSE LET s == CHOOSE x \in sizes : TRUE
         IN calls[s] + calls_total(calls, sizes \ {s})

calls_made == calls_total(rd_calls, OpSizes) + calls_total(wr_calls, OpSizes)

\* Summary::new, through Summary::file / Summary::pipe / Summary::socket
Init ==
    /\ descriptor \in Descriptors
    /\ read_freq = HashMap_new
    /\ write_freq = HashMap_new
    /\ read_bytes = 0
    /\ write_bytes = 0
    /\ overflow_checks \in BOOLEAN
    /\ panicked = FALSE
    /\ out = <<>>
    /\ diag = <<>>
    /\ last = [op |-> "new"]
    /\ rd_calls = zero_calls
    /\ wr_calls = zero_calls
    /\ rd_sum = 0
    /\ wr_sum = 0

\* bump with the bucket created at 1 and then incremented
bump_from_one(freq, op_size, checks) ==
    LET f == or_insert(freq, op_size, 1)
    IN [freq |-> [f EXCEPT ![op_size] = wrapping_add(@, 1)], panicked |-> FALSE]

\* let freq = map.entry(op_size).or_insert(0); *freq += 1;
\* the map and whether the increment panicked
bump(freq, op_size, checks) ==
    LET f == or_insert(freq, op_size, 0)
    IN IF checks /\ overflows(f[op_size], 1)
       THEN [freq |-> f, panicked |-> TRUE]
       ELSE [freq |-> [f EXCEPT ![op_size] = wrapping_add(@, 1)], panicked |-> FALSE]

\* total += bytes; the total and whether the addition panicked
accumulate(total, bytes, checks) ==
    IF checks /\ overflows(total, bytes)
    THEN [total |-> total, panicked |-> TRUE]
    ELSE [total |-> wrapping_add(total, bytes), panicked |-> FALSE]

\* reset that forgets to zero write_bytes
reset_keeps_write_bytes ==
    /\ ~panicked
    /\ read_freq' = HashMap_new
    /\ write_freq' = HashMap_new
    /\ read_bytes' = 0
    /\ out' = <<>>
    /\ diag' = <<>>
    /\ last' = [op |-> "reset", cleared |-> calls_made]
    /\ rd_calls' = zero_calls
    /\ wr_calls' = zero_calls
    /\ rd_sum' = 0
    /\ wr_sum' = 0
    /\ UNCHANGED <<descriptor, write_bytes, overflow_checks, panicked>>

reset ==
    /\ ~panicked
    /\ read_freq' = HashMap_new
    /\ write_freq' = HashMap_new
    /\ read_bytes' = 0
    /\ write_bytes' = 0
    /\ out' = <<>>
    /\ diag' = <<>>
    /\ last' = [op |-> "reset", cleared |-> calls_made]
    /\ rd_calls' = zero_calls
    /\ wr_calls' = zero_calls
    /\ rd_sum' = 0
    /\ wr_sum' = 0
    /\ UNCHANGED <<descriptor, overflow_checks, panicked>>

update_read(op_size, bytes) ==
    /\ ~panicked
    /\ calls_made < MaxCalls
    /\ LET b == bump(read_freq, op_size, overflow_checks)
           a == accumulate(read_bytes, bytes, overflow_checks)
       IN /\ read_freq' = b.freq
          /\ read_bytes' = IF b.panicked THEN read_bytes ELSE a.total
          /\ panicked' = (b.panicked \/ a.panicked)
    /\ out' = <<>>
    /\ diag' = <<>>
    /\ last' = [op |-> "update_read", op_size |-> op_size, bytes |-> bytes]
    /\ rd_calls' = [rd_calls EXCEPT ![op_size] = @ + 1]
    /\ rd_sum' = rd_sum + bytes
    /\ UNCHANGED <<descriptor, write_freq, write_bytes, overflow_checks, wr_calls, wr_sum>>

\* update_write that adds the bytes to read_bytes
update_write_into_read_bytes(op_size, bytes) ==
    /\ ~panicked
    /\ calls_made < MaxCalls
    /\ LET b == bump(write_freq, op_size, overflow_checks)
           a == accumulate(read_bytes, bytes, overflow_checks)
       IN /\ write_freq' = b.freq
          /\ read_bytes' = IF b.panicked THEN read_bytes ELSE a.total
          /\ panicked' = (b.panicked \/ a.panicked)
    /\ out' = <<>>
    /\ diag' = <<>>
    /\ last' = [op |-> "update_write", op_size |-> op_size, bytes |-> bytes]
    /\ wr_calls' = [wr_calls EXCEPT ![op_size] = @ + 1]
    /\ wr_sum' = wr_sum + bytes
    /\ UNCHANGED <<descriptor, read_freq, write_bytes, overflow_checks, rd_calls, rd_sum>>

update_write(op_size, bytes) ==
    /\ ~panicked
    /\ calls_made < MaxCalls
    /\ LET b == bump(write_freq, op_size, overflow_checks)
           a == accumulate(write_bytes, bytes, overflow_checks)
       IN /\ write_freq' = b.freq
          /\ write_bytes' = IF b.panicked THEN write_bytes ELSE a.total
          /\ panicked' = (b.panicked \/ a.panicked)
    /\ out' = <<>>
    /\ diag' = <<>>
    /\ last' = [op |-> "update_write", op_size |-> op_size, bytes |-> bytes]
    /\ wr_calls' = [wr_calls EXCEPT ![op_size] = @ + 1]
    /\ wr_sum' = wr_sum + bytes
    /\ UNCHANGED <<descriptor, read_freq, read_bytes, overflow_checks, rd_calls, rd_sum>>

show(verbose) ==
    /\ ~panicked
    /\ LET r == show_result(descriptor, read_freq, write_freq, read_bytes,
                            write_bytes, overflow_checks, verbose)
       IN /\ out' = r.out
          /\ diag' = r.diag
          /\ panicked' = r.panicked
    /\ last' = [op |-> "show", verbose |-> verbose]
    /\ UNCHANGED <<descriptor, read_freq, write_freq, read_bytes, write_bytes,
                   overflow_checks, rd_calls, wr_calls, rd_sum, wr_sum>>

UpdateRead == \E a \in Args : update_read(a[1], a[2])
UpdateWrite == \E a \in Args : update_write(a[1], a[2])
Show == \E verbose \in BOOLEAN : show(verbose)

Next == reset \/ UpdateRead \/ UpdateWrite \/ Show

Spec == Init /\ [][Next]_vars

---------------------------------------------------------------------------
(* Vocabulary of the properties *)

count(freq, s) == IF s \in DOMAIN freq THEN freq[s] ELSE 0

rd_made == calls_total(rd_calls, OpSizes)
wr_made == calls_total(wr_calls, OpSizes)

is_update == last.op \in {"update_read", "update_write"}

\* the visibility filter as the documentation lists it
ExactNames ==
    { <<"/","d","e","v","/","n","u","l","l">>,
      <<"S","T","D","O","U","T">>, <<"S","T","D","E","R","R">>,
      <<"S","T","D","I","N">>, <<"D","U","P">> }
Prefixes ==
    { <<"/","b","i","n","/">>, <<"/","e","t","c","/">>, <<"/","l","i","b","/">>,
      <<"/","l","i","b","6","4","/">>, <<"/","o","p","t","/">>,
      <<"/","p","r","o","c","/">>, <<"/","r","u","n","/">>,
      <<"/","s","b","i","n","/">>, <<"/","s","y","s","/">>,
      <<"/","t","m","p","/">>, <<"/","u","s","r","/">> }
Suppressed(d, verbose) ==
    /\ verbose = FALSE
    /\ \/ d.kind = "Pipe"
       \/ /\ d.kind = "File"
          /\ \/ d.path \in ExactNames
             \/ \E p \in Prefixes : Len(d.path) >= Len(p)
                                    /\ \A i \in 1 .. Len(p) : d.path[i] = p[i]

shown == last.op = "show" /\ ~panicked
silent == out = <<>> /\ diag = <<>>

largest_key(freq) == CHOOSE k \in DOMAIN freq : \A j \in DOMAIN freq : j <= k

\* the lines of out for one direction
lines_of(dir) == { i \in 1 .. Len(out) : out[i].dir = dir }

---------------------------------------------------------------------------
(* C1 *)

\* C1: in every reachable state the values of the read histogram sum to the
\* number of update_read calls made since the last reset (or construction),
\* and the values of the write histogram to the number of update_write calls.
C1_HistogramSumsCountCalls ==
    /\ values_total(read_freq) = rd_made
    /\ values_total(write_freq) = wr_made

\* reads and writes were recorded, on more than one size, and show has run
C1_Witness ==
    /\ last.op = "show"
    /\ rd_made >= 2
    /\ wr_made >= 1
    /\ Cardinality(DOMAIN read_freq) >= 2

(* C2 *)

\* C2: reset leaves both histograms empty and both totals 0 whatever the kind
\* and the prior updates, leaves the descriptor unchanged, leaves the
\* statistics of a new Summary, and a second reset changes nothing.
C2_Reset ==
    [][last'.op = "reset" =>
          /\ is_empty(read_freq') /\ is_empty(write_freq')
          /\ read_bytes' = 0 /\ write_bytes' = 0
          /\ descriptor' = descriptor
          /\ <<read_freq', write_freq', read_bytes', write_bytes'>>
                = <<HashMap_new, HashMap_new, 0, 0>>
          /\ (last.op = "reset" => summary' = summary)]_vars

\* a reset that cleared reads and writes
C2_Witness ==
    /\ last.op = "reset"
    /\ last.cleared >= 3
    /\ descriptor.kind = "Socket"
    /\ is_empty(read_freq) /\ is_empty(write_freq)

(* C3 *)

\* C3: for every size s the histogram count is the number of update calls with
\* that size since the last reset, and each byte total is the sum of the bytes
\* passed to those calls, whatever the sizes and byte counts.
C3_Additivity ==
    ~panicked =>
        /\ \A s \in OpSizes : count(read_freq, s) = rd_calls[s]
        /\ \A s \in OpSizes : count(write_freq, s) = wr_calls[s]
        /\ read_bytes = rd_sum
        /\ write_bytes = wr_sum

(* C4 *)

\* C4: show produces nothing at all (no line, no diagnostic) exactly when
\* verbose is false and the kind is Pipe or a File on the denylist; a Socket is
\* never suppressed and nothing is suppressed when verbose is true.
C4_SilentIffSuppressed ==
    shown => (silent <=> Suppressed(descriptor, last.verbose))

\* /etc/passwd with recorded reads and writes, shown without verbose
C4_Witness ==
    /\ shown /\ last.verbose = FALSE
    /\ descriptor = FileDescription(EtcPasswd)
    /\ rd_made >= 2 /\ wr_made >= 1
    /\ silent

(* C5 *)

\* C5: a Summary with both histograms empty prints no line under either verbose
\* value; when the filter does not suppress it show logs exactly the one
\* message "no I/O with <rendering>", and when it does show logs nothing.
C5_EmptyIsSilent ==
    (shown /\ is_empty(read_freq) /\ is_empty(write_freq)) =>
        /\ out = <<>>
        /\ diag = IF Suppressed(descriptor, last.verbose)
                  THEN <<>>
                  ELSE << <<"no I/O with ", Display(descriptor)>> >>

\* an empty denylisted file shown with verbose logs the message
C5_Witness ==
    /\ shown /\ last.verbose = TRUE
    /\ descriptor = FileDescription(EtcPasswd)
    /\ is_empty(read_freq) /\ is_empty(write_freq)
    /\ Len(diag) = 1

(* C6 *)

SizeSelectionExample == [k \in {64, 4096} |-> IF k = 64 THEN 10 ELSE 1]

\* C6: the size printed as "/ op" on a line is the largest key of that
\* direction's histogram, whatever the counts; for {64 -> 10, 4096 -> 1} it is
\* 4096.
C6_LargestSizeSelected ==
    /\ shown =>
          /\ \A i \in lines_of("read") : out[i].op_size = humanize(largest_key(read_freq))
          /\ \A i \in lines_of("write") : out[i].op_size = humanize(largest_key(write_freq))
    /\ max(SizeSelectionExample)[1] = 4096
    /\ humanize(max(SizeSelectionExample)[1]) = [digits |-> <<4, 0>>, unit |-> "K"]

\* 64 is the more frequent read size and 4096 is printed
C6_Witness ==
    /\ shown
    /\ DOMAIN read_freq = {64, 4096}
    /\ read_freq[64] > read_freq[4096]
    /\ Len(out) >= 1
    /\ out[1].dir = "read"
    /\ out[1].op_size = [digits |-> <<4, 0>>, unit |-> "K"]

(* C7 *)

EndToEnd ==
    /\ descriptor = FileDescription(HomeUserDataBin)
    /\ rd_calls = [s \in OpSizes |-> IF s = 4096 THEN 3 ELSE IF s = 1024 THEN 1 ELSE 0]
    /\ rd_sum = 12788
    /\ wr_made = 0
    /\ last = [op |-> "show", verbose |-> FALSE]

EndToEndLine ==
    [ dir        |-> "read",
      total      |-> [digits |-> <<12, 5>>, unit |-> "K"],
      n_ops      |-> 4,
      op_size    |-> [digits |-> <<4, 0>>, unit |-> "K"],
      descriptor |-> <<"FILE Path:", HomeUserDataBin>> ]

\* C7: a Summary the filter does not suppress prints one line per non-empty
\* histogram, read before write, each with n_ops the sum of the counts and
\* total the byte total of its direction; the end-to-end scenario prints the
\* one read line with 4 ops, 12788 bytes (12.5K) and size 4096 (4.0K).
C7_OneLinePerDirection ==
    /\ (shown /\ ~Suppressed(descriptor, last.verbose)) =>
          /\ Cardinality(lines_of("read")) = IF is_empty(read_freq) THEN 0 ELSE 1
          /\ Cardinality(lines_of("write")) = IF is_empty(write_freq) THEN 0 ELSE 1
          /\ Len(out) = Cardinality(lines_of("read")) + Cardinality(lines_of("write"))
          /\ \A i \in lines_of("read") : \A j \in lines_of("write") : i < j
          /\ \A i \in lines_of("read") :
                /\ out[i].n_ops = rd_made
                /\ out[i].total = humanize(read_bytes)
          /\ \A i \in lines_of("write") :
                /\ out[i].n_ops = wr_made
                /\ out[i].total = humanize(write_bytes)
    /\ (EndToEnd /\ ~panicked) => out = <<EndToEndLine>>

\* the end-to-end scenario has been shown
C7_Witness == EndToEnd /\ ~panicked /\ Len(out) = 1

(* C8 *)

\* C8: an update never decreases a byte total, whatever its arguments.
C8_TotalsNeverDecrease ==
    [][last'.op \in {"update_read", "update_write"} =>
          /\ read_bytes' >= read_bytes
          /\ write_bytes' >= write_bytes]_vars

(* C9 *)

\* C9: when the bytes passed since the last reset exceed the largest u64 the
\* total has saturated or the update has faulted: it never wraps silently.
C9_NoSilentWrap ==
    /\ rd_sum > U64Max => (panicked \/ read_bytes = U64Max)
    /\ wr_sum > U64Max => (panicked \/ write_bytes = U64Max)

(* C10 *)

\* C10: update_read leaves the write side and the descriptor unchanged,
\* update_write the read side and the descriptor, show the whole Summary (so
\* a second show prints the same), and no operation changes the descriptor.
C10_Frame ==
    [][/\ descriptor' = descriptor
       /\ last'.op = "update_read" =>
             (write_freq' = write_freq /\ write_bytes' = write_bytes)
       /\ last'.op = "update_write" =>
             (read_freq' = read_freq /\ read_bytes' = read_bytes)
       /\ last'.op = "show" => summary' = summary
       /\ (last.op = "show" /\ last'.op = "show" /\ last'.verbose = last.verbose
             /\ ~panicked') =>
             (out' = out /\ diag' = diag)]_vars

\* a socket with reads and writes recorded has been shown, its fields empty
C10_Witness ==
    /\ shown
    /\ descriptor = SocketDescription
    /\ descriptor.bind = <<>> /\ descriptor.connect = <<>>
    /\ rd_made >= 1 /\ wr_made >= 1
    /\ Len(out) = 2

===========================================================================
